---- MODULE Spec2Model ----
(***************************************************************************)
(* State-machine model of the vetcare appointment service                  *)
(* (services/appointment_service.py, domain/entities/appointment.py,       *)
(* infra/database/repositories/appointment_repository.py) and of the       *)
(* inventory service (services/inventory_service.py,                       *)
(* domain/entities/stock.py, infra/database/repositories/                  *)
(* stock_repository.py).                                                   *)
(*                                                                         *)
(* Conventions.  Times are minutes (600 is 10:00).  Python's None is 0 for *)
(* an id or a timestamp and "" for a text; an absent dict key is a key     *)
(* that is not in the DOMAIN of the record.  A raised exception is         *)
(* last.ok = FALSE with the message in last.err.                           *)
(***************************************************************************)
EXTENDS Integers, Sequences, FiniteSets, TLC

VARIABLES
    appts,      \* the appointments table: row id -> AppointmentModel
    now,        \* datetime.now()
    last,       \* the last call: operation, row id, outcome, message, arguments
                \* and, for a call that returns a list, the result
    pending,    \* per request: the entity built by a request that has not yet saved
    stocks,     \* the stock table: row id -> StockModel
    movements   \* the stock_movements table, in insertion order

vars == <<appts, now, last, pending, stocks, movements>>

(***************************************************************************)
(* Bounds of the model.                                                    *)
(***************************************************************************)
MaxAppts == 2
MaxQty == 2
MaxMoves == 3

(***************************************************************************)
(* Enumerations and program constants.                                     *)
(***************************************************************************)
AppointmentStatus ==
    {"scheduled", "confirmed", "in_progress", "completed", "cancelled", "no_show"}

AppointmentType ==
    {"consultation", "vaccination", "surgery", "emergency", "follow_up", "grooming"}

MaxDurationMinutes == 480

\* The pets and users tables are fixed: pet 1 is active, pet 2 inactive;
\* users 1 and 2 are veterinarians, user 3 is a receptionist.
ActivePets == {1}
InactivePets == {2}
Veterinarians == {1, 2}
OtherUsers == {3}

ClockValues == {595, 610}

\* The web requests that may be in flight together.
Requests == {1, 2}

(***************************************************************************)
(* Appointment entity.                                                     *)
(***************************************************************************)
end_time(a) == a.appointment_date + a.duration_minutes

\* A guard that forgets that completed is final.
can_be_modified_but_completed(a) ==
    a.status \in {"scheduled", "confirmed", "in_progress", "completed"}

can_be_modified(a) == a.status \in {"scheduled", "confirmed", "in_progress"}

\* Appointment.__post_init__: the only live validation.
post_init_ok(duration) == duration > 0

\* One duration for every type.
get_default_duration_flat(t) == 30

get_default_duration(t) ==
    CASE t = "consultation" -> 30
      [] t = "vaccination" -> 15
      [] t = "surgery" -> 120
      [] t = "emergency" -> 60
      [] t = "follow_up" -> 20
      [] t = "grooming" -> 60
      [] OTHER -> 30

(***************************************************************************)
(* Appointment repository.                                                 *)
(***************************************************************************)
AppointmentIds == 1..Len(appts)

\* find_by_id returns None (FALSE here) for a missing row.
row_exists(id) == id \in AppointmentIds

\* _model_to_entity constructs an Appointment, whose __post_init__ raises on
\* a stored duration that is not positive.
model_to_entity_ok(id) == post_init_ok(appts[id].duration_minutes)

\* The rows the filter of check_availability selects.
overlapping_appointments(start_t, end_t, veterinarian_id) ==
    {i \in AppointmentIds :
        /\ appts[i].veterinarian_id = veterinarian_id
        /\ appts[i].status \in {"scheduled", "confirmed", "in_progress"}
        /\ \/ /\ appts[i].appointment_date <= start_t
              /\ end_time(appts[i]) > start_t
           \/ /\ appts[i].appointment_date < end_t
              /\ end_time(appts[i]) >= end_t
           \/ /\ appts[i].appointment_date >= start_t
              /\ end_time(appts[i]) <= end_t}

check_availability(start_t, end_t, veterinarian_id) ==
    overlapping_appointments(start_t, end_t, veterinarian_id) = {}

(***************************************************************************)
(* Outcome of a call.                                                      *)
(***************************************************************************)
Outcome(op, id, ok, err, arg) ==
    [op |-> op, id |-> id, ok |-> ok, err |-> err, arg |-> arg]

Raise(op, id, err) ==
    /\ last' = Outcome(op, id, FALSE, err, <<>>)
    /\ UNCHANGED <<appts, now, pending, stocks, movements>>

Init ==
    /\ appts = <<>>
    /\ now = 595
    /\ last = Outcome("init", 0, TRUE, "", <<>>)
    /\ pending = [p \in Requests |-> [pc |-> "idle"]]
    /\ stocks = <<>>
    /\ movements = <<>>

(***************************************************************************)
(* AppointmentService.schedule_appointment                                 *)
(***************************************************************************)
\* _validate_appointment_data, then the pet, veterinarian and date checks,
\* in the order the code makes them: "" when none raises.
ScheduleError(data) ==
    IF data.pet_id = 0 THEN "pet_id is required"
    ELSE IF data.appointment_type \notin AppointmentType
        THEN "Invalid appointment type"
    ELSE IF /\ "duration_minutes" \in DOMAIN data
            /\ \/ data.duration_minutes <= 0
               \/ data.duration_minutes > MaxDurationMinutes
        THEN "Duration must be between 1 and 480 minutes"
    ELSE IF data.pet_id \notin ActivePets \cup InactivePets THEN "Pet not found"
    ELSE IF data.pet_id \in InactivePets
        THEN "Cannot schedule appointment for inactive pet"
    ELSE IF /\ data.veterinarian_id # 0
            /\ data.veterinarian_id \notin Veterinarians \cup OtherUsers
        THEN "Veterinarian not found"
    ELSE IF data.veterinarian_id \in OtherUsers
        THEN "Selected user is not a veterinarian"
    ELSE IF data.appointment_date < now
        THEN "Cannot schedule appointments in the past"
    ELSE ""

\* The Appointment the service constructs (status SCHEDULED, no updated_at).
new_appointment(data) ==
    [veterinarian_id |-> data.veterinarian_id,
     appointment_date |-> data.appointment_date,
     duration_minutes |->
        IF "duration_minutes" \in DOMAIN data
        THEN data.duration_minutes
        ELSE get_default_duration(data.appointment_type),
     status |-> "scheduled",
     notes |-> "",
     updated_at |-> 0]

\* SQLAppointmentRepository.save of an entity without id: an insert.
save_new(entity) == appts' = Append(appts, entity)

schedule_appointment(data) ==
    LET err == ScheduleError(data) IN
    IF err # "" THEN Raise("schedule_appointment", 0, err)
    ELSE IF ~post_init_ok(new_appointment(data).duration_minutes)
        THEN Raise("schedule_appointment", 0, "Duration must be positive")
    ELSE /\ Len(appts) < MaxAppts
         /\ save_new(new_appointment(data))
         /\ last' = Outcome("schedule_appointment", Len(appts) + 1, TRUE, "",
                            <<data>>)
         /\ UNCHANGED <<now, pending, stocks, movements>>

(***************************************************************************)
(* Status operations.                                                      *)
(***************************************************************************)
\* find_by_id as every operation starts with it: "" when an entity comes back.
FindError(id) ==
    IF ~row_exists(id) THEN "Appointment not found"
    ELSE IF ~model_to_entity_ok(id) THEN "Duration must be positive"
    ELSE ""

\* SQLAppointmentRepository.update of a loaded entity: the row is overwritten.
update_row(id, entity) == appts' = [appts EXCEPT ![id] = entity]

Succeed(op, id, entity) ==
    /\ update_row(id, entity)
    /\ last' = Outcome(op, id, TRUE, "", <<>>)
    /\ UNCHANGED <<now, pending, stocks, movements>>

\* The status operations of the service.
StatusOperations ==
    {"confirm_appointment", "start_appointment",
     "complete_appointment", "cancel_appointment"}

\* A guard that takes any appointment that is not over.
confirm_allowed_any_open(a) == can_be_modified(a)

confirm_allowed(a) == a.status = "scheduled"

confirm_appointment(id) ==
    LET op == "confirm_appointment" IN
    IF FindError(id) # "" THEN Raise(op, id, FindError(id))
    ELSE IF ~confirm_allowed(appts[id])
        THEN Raise(op, id, "Only scheduled appointments can be confirmed")
    ELSE Succeed(op, id,
            [appts[id] EXCEPT !.status = "confirmed", !.updated_at = now])

start_allowed(a) == a.status = "confirmed"

start_appointment(id) ==
    LET op == "start_appointment" IN
    IF FindError(id) # "" THEN Raise(op, id, FindError(id))
    ELSE IF ~start_allowed(appts[id])
        THEN Raise(op, id, "Only confirmed appointments can be started")
    ELSE Succeed(op, id,
            [appts[id] EXCEPT !.status = "in_progress", !.updated_at = now])

\* The service's own guard, ahead of the entity's.
complete_allowed(a) == a.status = "in_progress"

\* Appointment.mark_as_completed: its guard and its assignments.
mark_as_completed_allowed(a) == a.status = "in_progress"

mark_as_completed(a, completion_notes) ==
    [a EXCEPT !.status = "completed",
              !.notes = IF completion_notes # "" THEN completion_notes ELSE @,
              !.updated_at = now]

complete_appointment(id, completion_notes) ==
    LET op == "complete_appointment" IN
    IF FindError(id) # "" THEN Raise(op, id, FindError(id))
    ELSE IF ~complete_allowed(appts[id])
        THEN Raise(op, id, "Only appointments in progress can be completed")
    ELSE IF ~mark_as_completed_allowed(appts[id])
        THEN Raise(op, id, "Only appointments in progress can be completed")
    ELSE Succeed(op, id, mark_as_completed(appts[id], completion_notes))

\* Appointment.cancel: its guard is can_be_modified again, then its assignments.
cancel(a, reason) ==
    [a EXCEPT !.status = "cancelled",
              !.notes = IF reason # "" THEN "Cancelled: " \o reason ELSE @,
              !.updated_at = now]

cancel_appointment(id, cancellation_reason) ==
    LET op == "cancel_appointment" IN
    IF FindError(id) # "" THEN Raise(op, id, FindError(id))
    ELSE IF ~can_be_modified(appts[id])
        THEN Raise(op, id, "This appointment cannot be cancelled")
    ELSE IF ~can_be_modified(appts[id])
        THEN Raise(op, id, "Cannot cancel this appointment")
    ELSE Succeed(op, id, cancel(appts[id], cancellation_reason))

(***************************************************************************)
(* AppointmentService.update_appointment                                   *)
(***************************************************************************)
\* The setattr loop: every key of update_data that is a field is assigned.
apply_update(a, update_data) ==
    [f \in DOMAIN a |->
        IF f = "updated_at" THEN now
        ELSE IF f \in DOMAIN update_data THEN update_data[f]
        ELSE a[f]]

update_appointment(id, update_data) ==
    LET op == "update_appointment" IN
    IF FindError(id) # "" THEN Raise(op, id, FindError(id))
    ELSE IF /\ "appointment_date" \in DOMAIN update_data
            /\ update_data.appointment_date < now
        THEN Raise(op, id, "Cannot reschedule to past date")
    ELSE Succeed(op, id, apply_update(appts[id], update_data))

(***************************************************************************)
(* A call of SQLAppointmentRepository.check_availability.                  *)
(***************************************************************************)
CheckAvailability(start_t, end_t, veterinarian_id) ==
    /\ last' = Outcome("check_availability", 0,
                       check_availability(start_t, end_t, veterinarian_id), "",
                       <<start_t, end_t, veterinarian_id>>)
    /\ UNCHANGED <<appts, now, pending, stocks, movements>>

\* Time passes.
Tick ==
    /\ \E t \in ClockValues : t > now /\ now' = t
    /\ last' = Outcome("tick", 0, TRUE, "", <<>>)
    /\ UNCHANGED <<appts, pending, stocks, movements>>

(***************************************************************************)
(* The appointment life cycle: schedule, the four status operations and    *)
(* update_appointment, on the appointments of one veterinarian.            *)
(***************************************************************************)
IdInputs == 1..MaxAppts

LifecycleScheduleInputs ==
    {[pet_id |-> p, veterinarian_id |-> 1, appointment_date |-> 600,
      appointment_type |-> "consultation"] : p \in {1, 2}}

LifecycleUpdateInputs ==
    {[status |-> s] : s \in AppointmentStatus}
    \cup {[duration_minutes |-> 0]}

Next ==
    \/ \E data \in LifecycleScheduleInputs : schedule_appointment(data)
    \/ \E id \in IdInputs : confirm_appointment(id)
    \/ \E id \in IdInputs : start_appointment(id)
    \/ \E id \in IdInputs, n \in {"", "done"} : complete_appointment(id, n)
    \/ \E id \in IdInputs : cancel_appointment(id, "")
    \/ \E id \in IdInputs, data \in LifecycleUpdateInputs :
            update_appointment(id, data)

Spec == Init /\ [][Next]_vars

(***************************************************************************)
(* Scheduling: appointments of two veterinarians are scheduled, moved,     *)
(* cancelled, and availability is queried, while time passes.              *)
(***************************************************************************)
DateInputs == {600, 615}

SchedScheduleInputs ==
    {[pet_id |-> 1, veterinarian_id |-> v, appointment_date |-> t,
      appointment_type |-> "consultation", duration_minutes |-> d] :
        v \in Veterinarians, t \in DateInputs, d \in {0, 15, 481}}
    \cup
    {[pet_id |-> 1, veterinarian_id |-> v, appointment_date |-> t,
      appointment_type |-> "consultation"] :
        v \in Veterinarians \cup OtherUsers, t \in DateInputs}

SchedUpdateInputs ==
    {[appointment_date |-> t, duration_minutes |-> d] :
        t \in DateInputs, d \in {0, 30, 481}}

NextSched ==
    \/ \E data \in SchedScheduleInputs : schedule_appointment(data)
    \/ \E id \in IdInputs, data \in SchedUpdateInputs :
            update_appointment(id, data)
    \/ \E id \in IdInputs : cancel_appointment(id, "owner")
    \/ \E s \in DateInputs, d \in {15, 30}, v \in Veterinarians :
            CheckAvailability(s, s + d, v)
    \/ Tick

SpecSched == Init /\ [][NextSched]_vars

(***************************************************************************)
(* AppointmentService.get_availability_slots.  A date is a day number; its *)
(* times are the minutes DayMinutes * date + 0 .. DayMinutes - 1.          *)
(***************************************************************************)
DayMinutes == 1440
start_hour == 8
end_hour == 18
SlotStep == 30

\* SQLAppointmentRepository.find_by_date: the rows that start on the date.
find_by_date(date_target) ==
    {i \in AppointmentIds :
        /\ appts[i].appointment_date >= DayMinutes * date_target
        /\ appts[i].appointment_date <= DayMinutes * date_target + (DayMinutes - 1)}

\* find_by_date builds an entity of every row it selects.
FindByDateError(date_target) ==
    IF \E i \in find_by_date(date_target) : ~model_to_entity_ok(i)
    THEN "Duration must be positive"
    ELSE ""

existing_appointments(date_target, veterinarian_id) ==
    {i \in find_by_date(date_target) :
        /\ appts[i].veterinarian_id = veterinarian_id
        /\ appts[i].status \in {"scheduled", "confirmed", "in_progress"}}

\* The inner loop: no existing appointment overlaps the slot.
is_available(current_time, slot_end, existing) ==
    \A i \in existing :
        ~(/\ current_time < end_time(appts[i])
          /\ slot_end > appts[i].appointment_date)

\* The while loop, from current_time on.
RECURSIVE available_slots(_, _, _, _)
available_slots(current_time, day_end, duration_minutes, existing) ==
    IF ~(current_time + duration_minutes <= day_end) THEN <<>>
    ELSE (IF is_available(current_time, current_time + duration_minutes, existing)
          THEN <<[start_time |-> current_time,
                  end_time |-> current_time + duration_minutes]>>
          ELSE <<>>)
         \o available_slots(current_time + SlotStep, day_end,
                            duration_minutes, existing)

get_availability_slots(date_target, veterinarian_id, duration_minutes) ==
    available_slots(DayMinutes * date_target + 60 * start_hour,
                    DayMinutes * date_target + 60 * end_hour,
                    duration_minutes,
                    existing_appointments(date_target, veterinarian_id))

\* The outcome of a query: what Outcome holds, and the value returned.
Returned(op, ok, err, arg, result) ==
    [op |-> op, id |-> 0, ok |-> ok, err |-> err, arg |-> arg, result |-> result]

\* A query that stamps the rows it read.
GetAvailabilitySlots_touching(date_target, veterinarian_id, duration_minutes) ==
    /\ last' = Returned("get_availability_slots", TRUE, "",
                        <<date_target, veterinarian_id, duration_minutes>>,
                        get_availability_slots(date_target, veterinarian_id,
                                               duration_minutes))
    /\ appts' = [i \in AppointmentIds |->
                    IF i \in find_by_date(date_target)
                    THEN [appts[i] EXCEPT !.updated_at = now]
                    ELSE appts[i]]
    /\ UNCHANGED <<now, pending, stocks, movements>>

\* A call of get_availability_slots.
GetAvailabilitySlots(date_target, veterinarian_id, duration_minutes) ==
    LET op == "get_availability_slots"
        arg == <<date_target, veterinarian_id, duration_minutes>>
    IN /\ last' =
            IF FindByDateError(date_target) # ""
            THEN Returned(op, FALSE, FindByDateError(date_target), arg, <<>>)
            ELSE Returned(op, TRUE, "", arg,
                    get_availability_slots(date_target, veterinarian_id,
                                           duration_minutes))
       /\ UNCHANGED <<appts, now, pending, stocks, movements>>

(***************************************************************************)
(* Availability: appointments of two veterinarians at 10:00 and at 23:00   *)
(* of day 0 are scheduled, given another duration and cancelled, and the   *)
(* free slots of day 0 and day 1 are queried.                              *)
(***************************************************************************)
SlotDates == {0, 1}

SlotDurations == {30, 60}

SlotScheduleInputs ==
    {[pet_id |-> 1, veterinarian_id |-> v, appointment_date |-> t,
      appointment_type |-> "consultation"] :
        v \in Veterinarians, t \in {600, 1380}}

SlotUpdateInputs == {[duration_minutes |-> d] : d \in {0, 600}}

NextSlots ==
    \/ \E data \in SlotScheduleInputs : schedule_appointment(data)
    \/ \E id \in IdInputs, data \in SlotUpdateInputs :
            update_appointment(id, data)
    \/ \E id \in IdInputs : cancel_appointment(id, "")
    \/ \E s \in {600, DayMinutes + 60 * start_hour}, v \in Veterinarians :
            CheckAvailability(s, s + 30, v)
    \/ \E date_target \in SlotDates, v \in Veterinarians, d \in SlotDurations :
            GetAvailabilitySlots(date_target, v, d)

SpecSlots == Init /\ [][NextSlots]_vars

(***************************************************************************)
(* Appointment types: appointments of every type are scheduled, with and   *)
(* without a duration.                                                     *)
(***************************************************************************)
TypeScheduleInputs ==
    {[pet_id |-> 1, veterinarian_id |-> 1, appointment_date |-> 600,
      appointment_type |-> t] : t \in AppointmentType}
    \cup
    {[pet_id |-> 1, veterinarian_id |-> 1, appointment_date |-> 600,
      appointment_type |-> t, duration_minutes |-> d] :
        t \in AppointmentType, d \in {0, 45, MaxDurationMinutes, MaxDurationMinutes + 1}}

NextTypes == \E data \in TypeScheduleInputs : schedule_appointment(data)

SpecTypes == Init /\ [][NextTypes]_vars

(***************************************************************************)
(* Two schedule_appointment requests in flight: each runs its checks and   *)
(* builds its entity, then saves it, and the two may interleave.           *)
(***************************************************************************)
schedule_checks(p, data) ==
    /\ pending[p].pc = "idle"
    /\ LET err == ScheduleError(data) IN
       IF err # "" THEN Raise("schedule_appointment", 0, err)
       ELSE /\ pending' = [pending EXCEPT ![p] =
                    [pc |-> "built", entity |-> new_appointment(data)]]
            /\ last' = Outcome("schedule_checks", 0, TRUE, "", <<>>)
            /\ UNCHANGED <<appts, now, stocks, movements>>

schedule_save(p) ==
    /\ pending[p].pc = "built"
    /\ Len(appts) < MaxAppts
    /\ save_new(pending[p].entity)
    /\ pending' = [pending EXCEPT ![p] =
            [pc |-> "saved", entity |-> pending[p].entity, id |-> Len(appts) + 1]]
    /\ last' = Outcome("schedule_appointment", Len(appts) + 1, TRUE, "", <<>>)
    /\ UNCHANGED <<now, stocks, movements>>

ConcScheduleInputs ==
    {[pet_id |-> 1, veterinarian_id |-> v, appointment_date |-> t,
      appointment_type |-> "consultation", duration_minutes |-> d] :
        v \in Veterinarians, t \in DateInputs, d \in {15, 30, 481}}

NextConc ==
    \/ \E p \in Requests, data \in ConcScheduleInputs : schedule_checks(p, data)
    \/ \E p \in Requests : schedule_save(p)

SpecConc == Init /\ [][NextConc]_vars

(***************************************************************************)
(* Two status operations in flight on appointments that were scheduled,    *)
(* confirmed and started before.  An operation first loads the appointment *)
(* with find_by_id, checks its status and changes the entity it holds,     *)
(* then writes the entity over the row with update; each repository call   *)
(* is a session of its own, and the two requests may interleave between.   *)
(***************************************************************************)
status_allowed(op, a) ==
    CASE op = "confirm_appointment" -> confirm_allowed(a)
      [] op = "start_appointment" -> start_allowed(a)
      [] op = "complete_appointment" ->
            complete_allowed(a) /\ mark_as_completed_allowed(a)
      [] op = "cancel_appointment" -> can_be_modified(a)

status_refused(op) ==
    CASE op = "confirm_appointment" -> "Only scheduled appointments can be confirmed"
      [] op = "start_appointment" -> "Only confirmed appointments can be started"
      [] op = "complete_appointment" -> "Only appointments in progress can be completed"
      [] op = "cancel_appointment" -> "This appointment cannot be cancelled"

\* The entity after the operation's assignments.
status_entity(op, a) ==
    CASE op = "confirm_appointment" ->
            [a EXCEPT !.status = "confirmed", !.updated_at = now]
      [] op = "start_appointment" ->
            [a EXCEPT !.status = "in_progress", !.updated_at = now]
      [] op = "complete_appointment" -> mark_as_completed(a, "")
      [] op = "cancel_appointment" -> cancel(a, "")

\* find_by_id, the status check and the change of the loaded entity.
status_find_by_id(p, op, id) ==
    /\ pending[p].pc = "idle"
    /\ IF FindError(id) # "" THEN Raise(op, id, FindError(id))
       ELSE IF ~status_allowed(op, appts[id]) THEN Raise(op, id, status_refused(op))
       ELSE /\ pending' = [pending EXCEPT ![p] =
                    [pc |-> "loaded", op |-> op, id |-> id,
                     entity |-> status_entity(op, appts[id])]]
            /\ last' = Outcome("find_by_id", id, TRUE, "", <<op>>)
            /\ UNCHANGED <<appts, now, stocks, movements>>

\* update: the row takes every field of the request's entity.
status_update(p) ==
    /\ pending[p].pc = "loaded"
    /\ update_row(pending[p].id, pending[p].entity)
    /\ pending' = [pending EXCEPT ![p] =
            [pc |-> "done", op |-> pending[p].op, id |-> pending[p].id]]
    /\ last' = Outcome(pending[p].op, pending[p].id, TRUE, "", <<>>)
    /\ UNCHANGED <<now, stocks, movements>>

NextStatusConc ==
    \/ /\ \A p \in Requests : pending[p].pc = "idle"
       /\ \/ \E data \in LifecycleScheduleInputs : schedule_appointment(data)
          \/ \E id \in IdInputs : confirm_appointment(id)
          \/ \E id \in IdInputs : start_appointment(id)
    \/ \E p \in Requests, op \in StatusOperations, id \in IdInputs :
            status_find_by_id(p, op, id)
    \/ \E p \in Requests : status_update(p)

SpecStatusConc == Init /\ [][NextStatusConc]_vars

(***************************************************************************)
(* Stock entities (domain/entities/stock.py).                              *)
(***************************************************************************)
StockMovementType ==
    {"purchase", "sale", "adjustment", "return", "expired", "damaged"}

\* Product 1 exists and is active, product 2 exists and is inactive.
ActiveProducts == {1}
InactiveProducts == {2}

\* date.max as the sort key of a lot without expiration date.
DateMax == 99991231

available_quantity(lot) == lot.current_quantity - lot.reserved_quantity

\* Stock.__post_init__: "" when the lot is accepted.
StockInitError(lot) ==
    IF lot.product_id <= 0 THEN "Product ID must be a positive integer"
    ELSE IF lot.current_quantity < 0 THEN "Current quantity cannot be negative"
    ELSE IF lot.reserved_quantity < 0 THEN "Reserved quantity cannot be negative"
    ELSE IF lot.reserved_quantity > lot.current_quantity
        THEN "Reserved quantity cannot exceed current quantity"
    ELSE ""

\* A movement that keeps the sign it was given.
quantity_as_given(movement_type, quantity) == quantity

\* StockMovement.__post_init__: the sign follows the movement type.
normalized_quantity(movement_type, quantity) ==
    IF movement_type \in {"sale", "expired", "damaged"} /\ quantity > 0
        THEN 0 - quantity
    ELSE IF movement_type \in {"purchase", "return"} /\ quantity < 0
        THEN 0 - quantity
    ELSE quantity

MovementInitError(product_id, quantity) ==
    IF product_id <= 0 THEN "Product ID must be a positive integer"
    ELSE IF quantity = 0 THEN "Quantity cannot be zero"
    ELSE ""

StockMovement(product_id, movement_type, quantity) ==
    [product_id |-> product_id, movement_type |-> movement_type,
     quantity |-> normalized_quantity(movement_type, quantity)]

\* The fields of StockMovement that have no default value, and the keyword
\* arguments adjust_stock passes: a constructor call that leaves a field
\* without default unset raises TypeError.
MovementFieldsWithoutDefault ==
    {"id", "product_id", "movement_type", "quantity", "reference_id", "reference_type"}

AdjustMovementKeywords ==
    {"id", "product_id", "movement_type", "quantity", "notes", "created_at", "created_by"}

\* A StockMovement whose reference fields default to None.
constructor_accepts_defaulted(keywords) ==
    MovementFieldsWithoutDefault \ {"reference_id", "reference_type"} \subseteq keywords

constructor_accepts(keywords) == MovementFieldsWithoutDefault \subseteq keywords

(***************************************************************************)
(* Stock repository.                                                       *)
(***************************************************************************)
StockIds == 1..Len(stocks)

\* find_stock_by_product_id: the product's rows, in table order.
RECURSIVE rows_of(_, _)
rows_of(product_id, i) ==
    IF i > Len(stocks) THEN <<>>
    ELSE IF stocks[i].product_id = product_id
        THEN <<i>> \o rows_of(product_id, i + 1)
    ELSE rows_of(product_id, i + 1)

find_stock_by_product_id(product_id) == rows_of(product_id, 1)

\* _stock_model_to_domain constructs a Stock per row, which validates it.
LoadError(product_id) ==
    LET bad == {i \in StockIds : /\ stocks[i].product_id = product_id
                                 /\ StockInitError(stocks[i]) # ""}
    IN IF bad = {} THEN ""
       ELSE StockInitError(stocks[CHOOSE i \in bad : \A j \in bad : i <= j])

\* func.sum over the selected rows; q gives each row's summand.
RECURSIVE SumOver(_, _)
SumOver(q, ids) ==
    IF ids = {} THEN 0
    ELSE LET i == CHOOSE x \in ids : TRUE IN q[i] + SumOver(q, ids \ {i})

ProductRows(product_id) == {i \in StockIds : stocks[i].product_id = product_id}

get_total_stock_by_product(product_id) ==
    SumOver([i \in StockIds |-> stocks[i].current_quantity],
            ProductRows(product_id))

get_available_stock_by_product(product_id) ==
    SumOver([i \in StockIds |-> available_quantity(stocks[i])],
            ProductRows(product_id))

(***************************************************************************)
(* Inventory service helpers.                                              *)
(***************************************************************************)
Min(a, b) == IF a < b THEN a ELSE b

SortKey(i) == IF stocks[i].expiration_date = 0 THEN DateMax
              ELSE stocks[i].expiration_date

\* The lots as the query returned them, not sorted.
RECURSIVE in_table_order(_)
in_table_order(ids) ==
    IF ids = {} THEN <<>>
    ELSE LET first == CHOOSE i \in ids : \A j \in ids : i <= j
         IN <<first>> \o in_table_order(ids \ {first})

\* list.sort(key=...) is stable: ties keep the table order.
RECURSIVE sort_by_expiration(_)
sort_by_expiration(ids) ==
    IF ids = {} THEN <<>>
    ELSE LET first == CHOOSE i \in ids :
                 \A j \in ids : \/ SortKey(i) < SortKey(j)
                                \/ SortKey(i) = SortKey(j) /\ i <= j
         IN <<first>> \o sort_by_expiration(ids \ {first})

\* The lots remove_stock and reserve_stock walk.
fifo_lots(product_id) ==
    sort_by_expiration({i \in ProductRows(product_id) :
                            available_quantity(stocks[i]) > 0})

RECURSIVE filter_reserved(_)
filter_reserved(order) ==
    IF order = <<>> THEN <<>>
    ELSE IF stocks[Head(order)].reserved_quantity > 0
        THEN <<Head(order)>> \o filter_reserved(Tail(order))
    ELSE filter_reserved(Tail(order))

\* A loop that empties every lot it visits.
quantity_to_take_whole_lot(remaining, in_stock) == in_stock

\* The quantity a loop takes from one lot.
quantity_to_take(remaining, in_stock) == Min(remaining, in_stock)

\* The greedy loops.  Each walks `order`, changes one lot per iteration and
\* writes it back at once (update_stock commits); a raise inside the loop
\* leaves the lots already written.  The result is the table and the error.
RECURSIVE remove_loop_from(_, _, _, _)
remove_loop_from(order, remaining, tbl, affected_stocks) ==
    IF order = <<>> \/ remaining <= 0
        THEN [tbl |-> tbl, err |-> "", affected_stocks |-> affected_stocks]
    ELSE LET i == Head(order)
             q == quantity_to_take(remaining, available_quantity(tbl[i]))
         IN IF q <= 0
                THEN [tbl |-> tbl, err |-> "Quantity to remove must be positive",
                      affected_stocks |-> affected_stocks]
            ELSE IF q > available_quantity(tbl[i])
                THEN [tbl |-> tbl, err |-> "Cannot remove more stock than available",
                      affected_stocks |-> affected_stocks]
            ELSE remove_loop_from(Tail(order), remaining - q,
                    [tbl EXCEPT ![i].current_quantity = @ - q],
                    Append(affected_stocks, i))

\* The loop of remove_stock, with affected_stocks = [] before it.
remove_loop(order, remaining, tbl) == remove_loop_from(order, remaining, tbl, <<>>)

\* A reserve loop that calls the lot's remove_stock.
reserve_loop_removing(order, remaining, tbl) == remove_loop(order, remaining, tbl)

RECURSIVE reserve_loop(_, _, _)
reserve_loop(order, remaining, tbl) ==
    IF order = <<>> \/ remaining <= 0 THEN [tbl |-> tbl, err |-> ""]
    ELSE LET i == Head(order)
             q == quantity_to_take(remaining, available_quantity(tbl[i]))
         IN IF q <= 0 THEN [tbl |-> tbl, err |-> "Quantity to reserve must be positive"]
            ELSE IF q > available_quantity(tbl[i])
                THEN [tbl |-> tbl, err |-> "Cannot reserve more stock than available"]
            ELSE reserve_loop(Tail(order), remaining - q,
                    [tbl EXCEPT ![i].reserved_quantity = @ + q])

\* A release that clears the whole reservation of the first lot.
release_loop_clearing(order, remaining, tbl) ==
    IF order = <<>> \/ remaining <= 0 THEN [tbl |-> tbl, err |-> ""]
    ELSE [tbl |-> [tbl EXCEPT ![Head(order)].reserved_quantity = 0], err |-> ""]

RECURSIVE release_loop(_, _, _)
release_loop(order, remaining, tbl) ==
    IF order = <<>> \/ remaining <= 0 THEN [tbl |-> tbl, err |-> ""]
    ELSE LET i == Head(order)
             q == quantity_to_take(remaining, tbl[i].reserved_quantity)
         IN IF q <= 0 THEN [tbl |-> tbl, err |-> "Quantity to release must be positive"]
            ELSE IF q > tbl[i].reserved_quantity
                THEN [tbl |-> tbl, err |-> "Cannot release more than reserved quantity"]
            ELSE release_loop(Tail(order), remaining - q,
                    [tbl EXCEPT ![i].reserved_quantity = @ - q])

\* A guard that compares with the stock on hand, reserved or not.
insufficient_stock_on_hand(product_id, quantity) ==
    get_total_stock_by_product(product_id) < quantity

\* The guard of remove_stock and reserve_stock.
insufficient_stock(product_id, quantity) ==
    get_available_stock_by_product(product_id) < quantity

\* A save that writes over the newest record.
save_movement_overwriting(ledger, movement) ==
    IF ledger = <<>> THEN <<movement>>
    ELSE [ledger EXCEPT ![Len(ledger)] = movement]

\* SQLStockRepository.save_movement: an insert.
save_movement(ledger, movement) == Append(ledger, movement)

\* The message of the insufficient-stock errors: an f-string with both numbers.
InsufficientStock(what, available_stock, quantity) ==
    what \o ". Available: " \o ToString(available_stock)
         \o ", Requested: " \o ToString(quantity)

\* The outcome of an inventory call: the tables after it, how it ended, and
\* the arguments it was called with.
StockOutcome(op, product_id, arg, tbl, ledger, err) ==
    /\ stocks' = tbl
    /\ movements' = ledger
    /\ last' = Outcome(op, product_id, err = "", err, arg)
    /\ UNCHANGED <<appts, now, pending>>

\* The outcome of an inventory call that returns a list of lots (their ids).
StockReturn(op, product_id, arg, tbl, ledger, result) ==
    /\ stocks' = tbl
    /\ movements' = ledger
    /\ last' = [op |-> op, id |-> product_id, ok |-> TRUE, err |-> "",
                arg |-> arg, result |-> result]
    /\ UNCHANGED <<appts, now, pending>>

\* A search that compares batch and location only.
matching_stock_by_batch(product_id, expiration_date, batch_number, location) ==
    LET m == {i \in ProductRows(product_id) :
                /\ stocks[i].batch_number = batch_number
                /\ stocks[i].location = location}
    IN IF m = {} THEN 0 ELSE CHOOSE i \in m : \A j \in m : i <= j

(***************************************************************************)
(* InventoryService.add_stock                                              *)
(***************************************************************************)
matching_stock(product_id, expiration_date, batch_number, location) ==
    LET m == {i \in ProductRows(product_id) :
                /\ stocks[i].batch_number = batch_number
                /\ stocks[i].location = location
                /\ stocks[i].expiration_date = expiration_date}
    IN IF m = {} THEN 0 ELSE CHOOSE i \in m : \A j \in m : i <= j

add_stock(product_id, quantity, expiration_date, batch_number, location) ==
    LET op == "add_stock"
        arg == <<quantity, expiration_date, batch_number, location>>
        i == matching_stock(product_id, expiration_date, batch_number, location)
        lot == [product_id |-> product_id, current_quantity |-> quantity,
                reserved_quantity |-> 0, expiration_date |-> expiration_date,
                batch_number |-> batch_number, location |-> location]
        tbl == IF i # 0 THEN [stocks EXCEPT ![i].current_quantity = @ + quantity]
               ELSE Append(stocks, lot)
        mv == StockMovement(product_id, "purchase", quantity)
    IN
    IF product_id \notin ActiveProducts \cup InactiveProducts
        THEN StockOutcome(op, product_id, arg, stocks, movements, "Product not found")
    ELSE IF product_id \in InactiveProducts
        THEN StockOutcome(op, product_id, arg, stocks, movements,
                          "Cannot add stock to inactive product")
    ELSE IF LoadError(product_id) # ""
        THEN StockOutcome(op, product_id, arg, stocks, movements, LoadError(product_id))
    ELSE IF i # 0 /\ quantity <= 0
        THEN StockOutcome(op, product_id, arg, stocks, movements,
                          "Quantity to add must be positive")
    ELSE IF i = 0 /\ StockInitError(lot) # ""
        THEN StockOutcome(op, product_id, arg, stocks, movements, StockInitError(lot))
    ELSE /\ get_total_stock_by_product(product_id) + quantity <= MaxQty
         /\ IF MovementInitError(product_id, quantity) # ""
            THEN StockOutcome(op, product_id, arg, tbl, movements,
                              MovementInitError(product_id, quantity))
            ELSE /\ Len(movements) < MaxMoves
                 /\ StockOutcome(op, product_id, arg, tbl, save_movement(movements, mv), "")

(***************************************************************************)
(* InventoryService.remove_stock                                           *)
(***************************************************************************)
remove_stock(product_id, quantity, movement_type) ==
    LET op == "remove_stock"
        arg == <<quantity, movement_type>>
        walk == remove_loop(fifo_lots(product_id), quantity, stocks)
        mv == StockMovement(product_id, movement_type, 0 - quantity)
    IN
    IF product_id \notin ActiveProducts \cup InactiveProducts
        THEN StockOutcome(op, product_id, arg, stocks, movements, "Product not found")
    ELSE IF insufficient_stock(product_id, quantity)
        THEN StockOutcome(op, product_id, arg, stocks, movements,
                InsufficientStock("Insufficient stock",
                    get_available_stock_by_product(product_id), quantity))
    ELSE IF LoadError(product_id) # ""
        THEN StockOutcome(op, product_id, arg, stocks, movements, LoadError(product_id))
    ELSE IF walk.err # ""
        THEN StockOutcome(op, product_id, arg, walk.tbl, movements, walk.err)
    ELSE IF MovementInitError(product_id, 0 - quantity) # ""
        THEN StockOutcome(op, product_id, arg, walk.tbl, movements,
                          MovementInitError(product_id, 0 - quantity))
    ELSE /\ Len(movements) < MaxMoves
         /\ StockReturn(op, product_id, arg, walk.tbl, save_movement(movements, mv),
                        walk.affected_stocks)

(***************************************************************************)
(* InventoryService.reserve_stock and release_reservation                  *)
(***************************************************************************)
reserve_stock(product_id, quantity) ==
    LET op == "reserve_stock"
        arg == <<quantity>>
        walk == reserve_loop(fifo_lots(product_id), quantity, stocks)
    IN
    IF insufficient_stock(product_id, quantity)
        THEN StockOutcome(op, product_id, arg, stocks, movements,
                InsufficientStock("Insufficient stock to reserve",
                    get_available_stock_by_product(product_id), quantity))
    ELSE IF LoadError(product_id) # ""
        THEN StockOutcome(op, product_id, arg, stocks, movements, LoadError(product_id))
    ELSE StockOutcome(op, product_id, arg, walk.tbl, movements, walk.err)

release_reservation(product_id, quantity) ==
    LET op == "release_reservation"
        arg == <<quantity>>
        walk == release_loop(filter_reserved(find_stock_by_product_id(product_id)),
                             quantity, stocks)
    IN
    IF LoadError(product_id) # ""
        THEN StockOutcome(op, product_id, arg, stocks, movements, LoadError(product_id))
    ELSE StockOutcome(op, product_id, arg, walk.tbl, movements, walk.err)

(***************************************************************************)
(* InventoryService.adjust_stock                                           *)
(***************************************************************************)
adjust_stock(product_id, new_quantity) ==
    LET op == "adjust_stock"
        arg == <<new_quantity>>
        difference == new_quantity - get_total_stock_by_product(product_id)
        mv == StockMovement(product_id, "adjustment", difference)
        rows == find_stock_by_product_id(product_id)
        lot == [product_id |-> product_id, current_quantity |-> new_quantity,
                reserved_quantity |-> 0, expiration_date |-> 0,
                batch_number |-> "", location |-> ""]
    IN
    IF difference = 0
        THEN StockOutcome(op, product_id, arg, stocks, movements,
                          "No adjustment needed, quantities are equal")
    ELSE IF ~constructor_accepts(AdjustMovementKeywords)
        THEN StockOutcome(op, product_id, arg, stocks, movements,
                          "TypeError: missing required arguments")
    ELSE IF MovementInitError(product_id, difference) # ""
        THEN StockOutcome(op, product_id, arg, stocks, movements,
                          MovementInitError(product_id, difference))
    ELSE /\ Len(movements) < MaxMoves
         /\ IF LoadError(product_id) # ""
            THEN StockOutcome(op, product_id, arg, stocks, save_movement(movements, mv),
                              LoadError(product_id))
            ELSE IF rows # <<>>
            THEN StockOutcome(op, product_id, arg,
                    [stocks EXCEPT ![Head(rows)].current_quantity = new_quantity],
                    save_movement(movements, mv), "")
            ELSE IF StockInitError(lot) # ""
            THEN StockOutcome(op, product_id, arg, stocks, save_movement(movements, mv),
                              StockInitError(lot))
            ELSE StockOutcome(op, product_id, arg, Append(stocks, lot),
                              save_movement(movements, mv), "")

(***************************************************************************)
(* The inventory: stock of the products is received, consumed, reserved,   *)
(* released and adjusted.                                                  *)
(***************************************************************************)
\* Product 3 does not exist.
ProductInputs == {1, 3}

QuantityInputs == (0 - 1)..MaxQty

ExpirationInputs == {0, 20240301}

NextStock ==
    \/ \E p \in ProductInputs \cup InactiveProducts, q \in QuantityInputs,
          e \in ExpirationInputs : add_stock(p, q, e, "", "")
    \/ \E p \in ProductInputs, q \in QuantityInputs : remove_stock(p, q, "sale")
    \/ \E p \in ProductInputs, q \in QuantityInputs : reserve_stock(p, q)
    \/ \E p \in ActiveProducts, q \in QuantityInputs : release_reservation(p, q)
    \/ \E p \in ActiveProducts, q \in QuantityInputs : adjust_stock(p, q)

SpecStock == Init /\ [][NextStock]_vars

(***************************************************************************)
(* First-expired-first-out: lots of one product with three different       *)
(* expirations are stocked, consumed and reserved.                         *)
(***************************************************************************)
FifoExpirationInputs == {0, 20240301, 20240601}

NextFifo ==
    \/ \E q \in 0..MaxQty, e \in FifoExpirationInputs :
            add_stock(1, q, e, "", "")
    \/ \E q \in 1..MaxQty : remove_stock(1, q, "sale")
    \/ \E q \in 1..MaxQty : reserve_stock(1, q)

SpecFifo == Init /\ [][NextFifo]_vars

(***************************************************************************)
(* Deliveries: stock of one product arrives in two batches, at two         *)
(* locations and with two expirations, and is consumed.                    *)
(***************************************************************************)
BatchInputs == {"", "B1"}

LocationInputs == {"", "shelf"}

NextLots ==
    \/ \E q \in 1..MaxQty, e \in ExpirationInputs, b \in BatchInputs,
          l \in LocationInputs : add_stock(1, q, e, b, l)
    \/ \E q \in 1..MaxQty : remove_stock(1, q, "sale")

SpecLots == Init /\ [][NextLots]_vars

(***************************************************************************)
(* The ledger: stock of one product is received and taken out under every  *)
(* movement type, with quantities of either sign.                          *)
(***************************************************************************)
NextLedger ==
    \/ \E q \in QuantityInputs : add_stock(1, q, 0, "", "")
    \/ \E q \in QuantityInputs, t \in StockMovementType :
            remove_stock(1, q, t)

SpecLedger == Init /\ [][NextLedger]_vars

(***************************************************************************)
(* Two remove_stock or reserve_stock requests in flight on stock received  *)
(* before.  A request first checks the available total and loads the lots  *)
(* (each repository call is a session of its own), then walks the lots it  *)
(* loaded and writes each one it changed back over its row, and the two    *)
(* requests may interleave between these steps.                            *)
(***************************************************************************)
\* The check and find_stock_by_product_id: the request holds the entities.
load_lots(p, op, product_id, quantity) ==
    /\ pending[p].pc = "idle"
    /\ IF insufficient_stock(product_id, quantity)
       THEN pending' = [pending EXCEPT ![p] =
                [pc |-> "done", op |-> op, quantity |-> quantity, ok |-> FALSE]]
       ELSE pending' = [pending EXCEPT ![p] =
                [pc |-> "loaded", op |-> op, quantity |-> quantity,
                 product_id |-> product_id, entities |-> stocks,
                 order |-> fifo_lots(product_id)]]
    /\ last' = Outcome("load_lots", product_id, TRUE, "", <<quantity>>)
    /\ UNCHANGED <<appts, now, stocks, movements>>

\* update_stock of the entities the loop changed: each row takes the values
\* of the request's entity.
write_back(before, after) ==
    [i \in StockIds |->
        IF i <= Len(before) /\ after[i] # before[i] THEN after[i] ELSE stocks[i]]

\* The loop over the loaded entities, then the movement of a removal.
walk_lots(p) ==
    /\ pending[p].pc = "loaded"
    /\ LET r == pending[p]
           walk == IF r.op = "remove_stock"
                   THEN remove_loop(r.order, r.quantity, r.entities)
                   ELSE reserve_loop(r.order, r.quantity, r.entities)
       IN /\ stocks' = write_back(r.entities, walk.tbl)
          /\ IF r.op = "remove_stock" /\ walk.err = ""
             THEN /\ Len(movements) < MaxMoves
                  /\ movements' = save_movement(movements,
                        StockMovement(r.product_id, "sale", 0 - r.quantity))
             ELSE movements' = movements
          /\ pending' = [pending EXCEPT ![p] =
                [pc |-> "done", op |-> r.op, quantity |-> r.quantity,
                 ok |-> walk.err = ""]]
          /\ last' = Outcome(r.op, r.product_id, walk.err = "", walk.err,
                             <<r.quantity>>)
    /\ UNCHANGED <<appts, now>>

NextStockConc ==
    \/ /\ \A p \in Requests : pending[p].pc = "idle"
       /\ \E q \in 1..MaxQty, e \in ExpirationInputs : add_stock(1, q, e, "", "")
    \/ \E p \in Requests, op \in {"remove_stock", "reserve_stock"},
          q \in 1..MaxQty : load_lots(p, op, 1, q)
    \/ \E p \in Requests : walk_lots(p)

SpecStockConc == Init /\ [][NextStockConc]_vars

(***************************************************************************)
(* The transition table of section 4.1, written out.                       *)
(***************************************************************************)
StatusOps ==
    {"confirm_appointment", "start_appointment",
     "complete_appointment", "cancel_appointment"}

SourceStatuses(op) ==
    CASE op = "confirm_appointment" -> {"scheduled"}
      [] op = "start_appointment" -> {"confirmed"}
      [] op = "complete_appointment" -> {"in_progress"}
      [] op = "cancel_appointment" -> {"scheduled", "confirmed", "in_progress"}

TargetStatus(op) ==
    CASE op = "confirm_appointment" -> "confirmed"
      [] op = "start_appointment" -> "in_progress"
      [] op = "complete_appointment" -> "completed"
      [] op = "cancel_appointment" -> "cancelled"

\* The call that made this step addressed a stored row.
CalledOnRow == last'.id \in AppointmentIds

\* C3: every status change made by confirm, start, complete or cancel is a
\* step of the table (scheduled to confirmed by confirm, confirmed to
\* in_progress by start, in_progress to completed by complete, and scheduled,
\* confirmed or in_progress to cancelled by cancel) and changes the addressed
\* appointment only; complete on a scheduled appointment fails; and each
\* operation called on a row that loads and is in its source status succeeds
\* and leaves the row in the operation's target status, so that confirm,
\* start, complete in that order end in completed.
C3_StatusStepsFollowTable ==
    [][last'.op \in StatusOps =>
        /\ \A i \in AppointmentIds :
              appts'[i].status # appts[i].status =>
                  /\ i = last'.id
                  /\ appts[i].status \in SourceStatuses(last'.op)
                  /\ appts'[i].status = TargetStatus(last'.op)
        /\ Len(appts') = Len(appts)
        /\ (/\ CalledOnRow
            /\ last'.op = "complete_appointment"
            /\ appts[last'.id].status = "scheduled") => ~last'.ok
        /\ (/\ CalledOnRow
            /\ appts[last'.id].duration_minutes > 0
            /\ appts[last'.id].status \in SourceStatuses(last'.op)) =>
                /\ last'.ok
                /\ appts'[last'.id].status = TargetStatus(last'.op)]_vars

\* complete has succeeded: the appointment is completed and carries the
\* completion notes.
C3_Witness ==
    /\ last.op = "complete_appointment"
    /\ last.ok
    /\ appts[last.id].status = "completed"
    /\ appts[last.id].notes = "done"

\* C4: confirm, start, complete or cancel called on an appointment whose
\* status is not a source status of that operation raises, and the stored
\* appointments (status, notes, updated_at and all) are what they were.
C4_DisallowedStatusNoMutation ==
    [][(/\ last'.op \in StatusOps
        /\ CalledOnRow
        /\ appts[last'.id].status \notin SourceStatuses(last'.op)) =>
            /\ ~last'.ok
            /\ appts' = appts]_vars

\* cancel was refused on a completed appointment.
C4_Witness ==
    /\ last.op = "cancel_appointment"
    /\ ~last.ok
    /\ last.id \in AppointmentIds
    /\ appts[last.id].status = "completed"
    /\ appts[last.id].duration_minutes > 0

\* C5: once the stored status of an appointment is completed or cancelled,
\* no operation of the service changes it.
C5_TerminalStatusIsFinal ==
    [][\A i \in AppointmentIds :
          appts[i].status \in {"completed", "cancelled"} =>
              appts'[i].status = appts[i].status]_vars

\* C6: no appointment is ever in status no_show.
C6_NoShowUnreachable ==
    \A i \in AppointmentIds : appts[i].status # "no_show"

\* C7: update_appointment on an appointment that is completed, cancelled or
\* no_show is rejected and the stored appointments are what they were.
C7_UpdateOnlyWhenModifiable ==
    [][(/\ last'.op = "update_appointment"
        /\ CalledOnRow
        /\ appts[last'.id].status \in {"completed", "cancelled", "no_show"}) =>
            /\ ~last'.ok
            /\ appts' = appts]_vars

(***************************************************************************)
(* Half-open interval overlap, as section 4.1 states it.                   *)
(***************************************************************************)
Blocking(a) == a.status \in {"scheduled", "confirmed", "in_progress"}

Overlaps(s1, e1, s2, e2) == s1 < e2 /\ e1 > s2

\* C1: no two appointments of one veterinarian that are scheduled, confirmed
\* or in_progress have overlapping intervals [start, start + duration).
C1_NoOverlappingAppointments ==
    \A i \in AppointmentIds, j \in AppointmentIds :
        (/\ i # j
         /\ appts[i].veterinarian_id # 0
         /\ appts[i].veterinarian_id = appts[j].veterinarian_id
         /\ Blocking(appts[i])
         /\ Blocking(appts[j])) =>
            ~Overlaps(appts[i].appointment_date,
                      appts[i].appointment_date + appts[i].duration_minutes,
                      appts[j].appointment_date,
                      appts[j].appointment_date + appts[j].duration_minutes)

\* C2: of two interleaved schedule_appointment requests for one veterinarian
\* with overlapping intervals, at most one is persisted.
C2_AtMostOneOfTwoPersisted ==
    \A p \in Requests, q \in Requests :
        (/\ p # q
         /\ pending[p].pc = "saved"
         /\ pending[q].pc = "saved") =>
            ~(/\ pending[p].entity.veterinarian_id = pending[q].entity.veterinarian_id
              /\ Overlaps(pending[p].entity.appointment_date,
                          pending[p].entity.appointment_date
                              + pending[p].entity.duration_minutes,
                          pending[q].entity.appointment_date,
                          pending[q].entity.appointment_date
                              + pending[q].entity.duration_minutes))

\* C8: every stored appointment has 0 < duration_minutes <= 480.
C8_DurationInRange ==
    \A i \in AppointmentIds :
        /\ appts[i].duration_minutes > 0
        /\ appts[i].duration_minutes <= 480

\* C9: check_availability(start, end, vet) with start < end returns false
\* exactly when some scheduled, confirmed or in_progress appointment of that
\* veterinarian has apptStart < end and apptEnd > start.
C9_AvailabilityIsHalfOpenOverlap ==
    last.op = "check_availability" =>
        (last.ok <=>
            ~\E i \in AppointmentIds :
                /\ appts[i].veterinarian_id = last.arg[3]
                /\ Blocking(appts[i])
                /\ Overlaps(appts[i].appointment_date,
                            appts[i].appointment_date + appts[i].duration_minutes,
                            last.arg[1], last.arg[2]))

\* C10: after any sequence of add_stock, remove_stock, reserve_stock,
\* release_reservation and adjust_stock calls, successful or failed, every
\* stored lot has current_quantity >= 0 and
\* 0 <= reserved_quantity <= current_quantity.
C10_LotQuantitiesInRange ==
    \A i \in StockIds :
        /\ stocks[i].current_quantity >= 0
        /\ stocks[i].reserved_quantity >= 0
        /\ stocks[i].reserved_quantity <= stocks[i].current_quantity

\* A lot with a reservation has just been consumed down to its reservation.
C10_Witness ==
    /\ last.op = "remove_stock"
    /\ last.ok
    /\ \E i \in StockIds :
          /\ stocks[i].reserved_quantity > 0
          /\ stocks[i].current_quantity = stocks[i].reserved_quantity

(***************************************************************************)
(* Inventory claims.                                                       *)
(***************************************************************************)
\* C11: remove_stock on an existing product, or reserve_stock, for a quantity
\* larger than the product's total available quantity fails with the
\* insufficient-stock message that carries available and requested, changes
\* no lot and appends no movement.
C11_InsufficientStockNoMutation ==
    [][(/\ last'.op \in {"remove_stock", "reserve_stock"}
        /\ last'.op = "remove_stock" =>
                last'.id \in ActiveProducts \cup InactiveProducts
        /\ last'.arg[1] > get_available_stock_by_product(last'.id)) =>
            /\ ~last'.ok
            /\ last'.err =
                  (IF last'.op = "remove_stock" THEN "Insufficient stock"
                   ELSE "Insufficient stock to reserve")
                  \o ". Available: "
                  \o ToString(get_available_stock_by_product(last'.id))
                  \o ", Requested: " \o ToString(last'.arg[1])
            /\ stocks' = stocks
            /\ movements' = movements]_vars

\* remove_stock was refused for more than is available although the product
\* has stock on hand, part of it reserved.
C11_Witness ==
    /\ last.op = "remove_stock"
    /\ ~last.ok
    /\ last.arg[1] > get_available_stock_by_product(last.id)
    /\ last.arg[1] <= get_total_stock_by_product(last.id)

\* C12: whenever remove_stock or reserve_stock takes quantity from a lot,
\* every lot of that product with a strictly earlier expiration date has
\* available quantity 0 after the call, and when the lot has no expiration
\* date every lot of the product that has one has available quantity 0.
C12_FirstExpiredFirstOut ==
    [][last'.op \in {"remove_stock", "reserve_stock"} =>
        \A i \in StockIds :
            (\/ stocks'[i].current_quantity < stocks[i].current_quantity
             \/ stocks'[i].reserved_quantity > stocks[i].reserved_quantity) =>
                \A j \in StockIds :
                    (/\ stocks[j].product_id = stocks[i].product_id
                     /\ stocks[j].expiration_date # 0
                     /\ \/ stocks[i].expiration_date = 0
                        \/ stocks[j].expiration_date < stocks[i].expiration_date) =>
                        stocks'[j].current_quantity
                            - stocks'[j].reserved_quantity = 0]_vars

\* A June lot was stocked before a March lot, one unit each, and a
\* remove_stock of one unit has drained the March lot and left the June lot.
C12_Witness ==
    /\ last.op = "remove_stock"
    /\ last.ok
    /\ last.arg[1] = 1
    /\ Len(movements) = 3
    /\ movements[1].quantity = 1
    /\ movements[2].quantity = 1
    /\ \E i \in StockIds, j \in StockIds :
          /\ i < j
          /\ stocks[i].expiration_date = 20240601
          /\ stocks[j].expiration_date = 20240301
          /\ stocks[i].current_quantity = 1
          /\ stocks[j].current_quantity = 0

\* C13: every successful remove_stock appends exactly one movement, for the
\* product, whose stored quantity is the negative of the requested amount,
\* whatever the movement type and the sign of the quantity passed.
C13_RemovalMovementIsNegative ==
    [][(last'.op = "remove_stock" /\ last'.ok) =>
        /\ Len(movements') = Len(movements) + 1
        /\ SubSeq(movements', 1, Len(movements)) = movements
        /\ movements'[Len(movements')].product_id = last'.id
        /\ movements'[Len(movements')].quantity =
              (IF last'.arg[1] < 0 THEN last'.arg[1] ELSE 0 - last'.arg[1])]_vars

\* C14: every movement of the ledger has a quantity that is not zero, negative
\* when its type is sale, expired or damaged and positive when its type is
\* purchase or return.
C14_MovementSignFollowsType ==
    \A k \in 1..Len(movements) :
        /\ movements[k].quantity # 0
        /\ movements[k].movement_type \in {"sale", "expired", "damaged"} =>
                movements[k].quantity < 0
        /\ movements[k].movement_type \in {"purchase", "return"} =>
                movements[k].quantity > 0

\* remove_stock was called with type return: it built its movement with a
\* negative quantity, which is stored positive.
C14_Witness ==
    /\ last.op = "remove_stock"
    /\ last.ok
    /\ last.arg[1] > 0
    /\ last.arg[2] = "return"
    /\ movements[Len(movements)].movement_type = "return"
    /\ movements[Len(movements)].quantity = last.arg[1]

\* C15: release_reservation for a quantity larger than the product's total
\* reserved quantity fails and changes no lot.
C15_OverReleaseIsRejected ==
    [][(/\ last'.op = "release_reservation"
        /\ last'.arg[1] >
              SumOver([i \in StockIds |-> stocks[i].reserved_quantity],
                      {i \in StockIds : stocks[i].product_id = last'.id})) =>
            /\ ~last'.ok
            /\ stocks' = stocks]_vars

\* C16: reserve_stock and release_reservation change nothing but the
\* reserved_quantity of lots: no lot is added, every lot keeps its
\* current_quantity and its other fields, and the ledger is the same.
C16_ReservationFrame ==
    [][last'.op \in {"reserve_stock", "release_reservation"} =>
        /\ movements' = movements
        /\ Len(stocks') = Len(stocks)
        /\ \A i \in StockIds :
              stocks'[i] = [stocks[i] EXCEPT
                  !.reserved_quantity = stocks'[i].reserved_quantity]]_vars

\* reserve_stock has reserved its quantity in a lot; the ledger holds the
\* purchase only.
C16_Witness ==
    /\ last.op = "reserve_stock"
    /\ last.ok
    /\ last.arg[1] > 0
    /\ Len(movements) = 1
    /\ \E i \in StockIds : stocks[i].reserved_quantity = last.arg[1]

\* C17: adjust_stock(product, n) with n different from the product's total
\* appends one movement of type adjustment with quantity n minus the total;
\* with n equal to the total it fails and appends nothing.
C17_AdjustmentIsRecorded ==
    [][last'.op = "adjust_stock" =>
        LET total == SumOver([i \in StockIds |-> stocks[i].current_quantity],
                             {i \in StockIds : stocks[i].product_id = last'.id})
        IN IF last'.arg[1] # total
           THEN movements' = Append(movements,
                    [product_id |-> last'.id, movement_type |-> "adjustment",
                     quantity |-> last'.arg[1] - total])
           ELSE ~last'.ok /\ movements' = movements]_vars

\* C18: the ledger only grows: every step leaves the records it held in
\* place and unchanged.
C18_LedgerOnlyGrows ==
    [][/\ Len(movements') >= Len(movements)
       /\ SubSeq(movements', 1, Len(movements)) = movements]_vars

\* A removal has been recorded after a purchase.
C18_Witness ==
    /\ last.op = "remove_stock"
    /\ last.ok
    /\ Len(movements) = 2
    /\ movements[1].movement_type = "purchase"
    /\ movements[2].movement_type = "sale"

\* C20: every add_stock, remove_stock or adjust_stock call either succeeds,
\* changes lots and appends one movement, or fails, changes no lot and
\* appends no movement.
C20_LotsAndMovementTogether ==
    [][last'.op \in {"add_stock", "remove_stock", "adjust_stock"} =>
        \/ /\ last'.ok
           /\ stocks' # stocks
           /\ Len(movements') = Len(movements) + 1
        \/ /\ ~last'.ok
           /\ stocks' = stocks
           /\ movements' = movements]_vars

\* C19: when two remove_stock or reserve_stock calls on one product have run
\* interleaved and both are over, the product's total current quantity has
\* dropped from what was received by the sum of the quantities of the
\* removals that succeeded, and its total reserved quantity is the sum of
\* the quantities of the reservations that succeeded.
C19_NoLostUpdate ==
    (\A p \in Requests : pending[p].pc = "done") =>
        LET received == SumOver([k \in 1..Len(movements) |-> movements[k].quantity],
                          {k \in 1..Len(movements) :
                                movements[k].movement_type = "purchase"})
            on_hand == SumOver([i \in StockIds |-> stocks[i].current_quantity],
                               StockIds)
            reserved == SumOver([i \in StockIds |-> stocks[i].reserved_quantity],
                                StockIds)
            done(op) == SumOver([p \in Requests |->
                            IF pending[p].op = op /\ pending[p].ok
                            THEN pending[p].quantity ELSE 0], Requests)
        IN /\ received - on_hand = done("remove_stock")
           /\ reserved = done("reserve_stock")


(***************************************************************************)
(* Free slots, as section 4.1 states them: the candidate windows of a day  *)
(* start every 30 minutes from 08:00 and end by 18:00.                     *)
(***************************************************************************)
SlotsCall == last.op = "get_availability_slots"

CandidateStarts(date_target, d) ==
    {t \in (1440 * date_target + 8 * 60)..(1440 * date_target + 18 * 60) :
        /\ (t - (1440 * date_target + 8 * 60)) % 30 = 0
        /\ t + d <= 1440 * date_target + 18 * 60}

\* The appointments of the veterinarian on the date that can block a window.
BlockingOn(date_target, veterinarian_id) ==
    {i \in AppointmentIds :
        /\ appts[i].appointment_date \div 1440 = date_target
        /\ appts[i].veterinarian_id = veterinarian_id
        /\ Blocking(appts[i])}

Windows(result) ==
    {<<result[k].start_time, result[k].end_time>> : k \in 1..Len(result)}

\* C21: get_availability_slots(date, veterinarian, d) returns the candidate
\* window [t, t + d) exactly when no appointment of that veterinarian on
\* that date in status scheduled, confirmed or in_progress overlaps it
\* (t < apptEnd and t + d > apptStart); cancelled, completed and no_show
\* appointments and appointments of other veterinarians remove no window.
C21_WindowIffNoOverlap ==
    SlotsCall =>
        \A t \in CandidateStarts(last.arg[1], last.arg[3]) :
            (<<t, t + last.arg[3]>> \in Windows(last.result))
            <=> ~\E i \in BlockingOn(last.arg[1], last.arg[2]) :
                    Overlaps(t, t + last.arg[3],
                             appts[i].appointment_date,
                             appts[i].appointment_date + appts[i].duration_minutes)

\* C22: the windows are returned in strictly increasing order of start,
\* each starts at 08:00 plus a multiple of 30 minutes and ends no later
\* than 18:00, and for a day with no blocking appointment and a duration of
\* 30 minutes exactly 20 windows are returned.
C22_WindowsOnTheGrid ==
    SlotsCall =>
        /\ \A k \in 1..Len(last.result) :
              /\ last.result[k].start_time \in CandidateStarts(last.arg[1], 0)
              /\ last.result[k].end_time <= 1440 * last.arg[1] + 18 * 60
              /\ k > 1 => last.result[k - 1].start_time < last.result[k].start_time
        /\ (last.arg[3] = 30 /\ BlockingOn(last.arg[1], last.arg[2]) = {}) =>
              Len(last.result) = 20

C28_ReturnedSlotsAreAvailable ==
    SlotsCall =>
        \A k \in 1..Len(last.result) :
            check_availability(last.result[k].start_time,
                               last.result[k].end_time, last.arg[2])


(***************************************************************************)
(* What a walk over the lots took, read off the tables before and after.   *)
(***************************************************************************)
Taken(before, after, i) == before[i].current_quantity - after[i].current_quantity

RECURSIVE TakenUpTo(_, _, _, _)
TakenUpTo(before, after, lots, k) ==
    IF k = 0 THEN 0
    ELSE TakenUpTo(before, after, lots, k - 1) + Taken(before, after, lots[k])

TotalOf(tbl, product_id) ==
    SumOver([i \in 1..Len(tbl) |-> tbl[i].current_quantity],
            {i \in 1..Len(tbl) : tbl[i].product_id = product_id})

\* C24: a successful remove_stock(product, q) with q > 0 lowers the sum of
\* current_quantity over the product's lots by exactly q, takes
\* min(remaining, available) from each lot in turn, and returns exactly the
\* lots it changed, each once, in the order it changed them (earliest
\* expiration first, lots without expiration last).
C24_RemoveTakesExactly ==
    [][(/\ last'.op = "remove_stock"
        /\ last'.ok
        /\ last'.arg[1] > 0) =>
          LET r == last'.result
              q == last'.arg[1]
          IN /\ Len(stocks') = Len(stocks)
             /\ TotalOf(stocks', last'.id) = TotalOf(stocks, last'.id) - q
             /\ {r[k] : k \in 1..Len(r)} = {i \in StockIds : stocks'[i] # stocks[i]}
             /\ \A k \in 1..Len(r) :
                   /\ Taken(stocks, stocks', r[k])
                        = Min(q - TakenUpTo(stocks, stocks', r, k - 1),
                              available_quantity(stocks[r[k]]))
                   /\ \A j \in 1..Len(r) :
                         j < k => /\ r[j] # r[k]
                                  /\ SortKey(r[j]) <= SortKey(r[k])]_vars

\* A removal of two units took one from each of two lots and returned both.
C24_Witness ==
    /\ last.op = "remove_stock"
    /\ last.ok
    /\ last.arg[1] = 2
    /\ Len(last.result) = 2


\* The lots of the product with the batch, location and expiration of the
\* add_stock call that made this step.
SameLot ==
    {i \in StockIds :
        /\ stocks[i].product_id = last'.id
        /\ stocks[i].expiration_date = last'.arg[2]
        /\ stocks[i].batch_number = last'.arg[3]
        /\ stocks[i].location = last'.arg[4]}

\* C25: a successful add_stock(product, q, expiration, batch, location) with
\* q > 0 on an active product adds q to the lot of the same batch, location
\* and expiration, or, when there is none, creates one lot with
\* current_quantity q and nothing reserved; it appends exactly one purchase
\* movement of +q; every other lot is what it was.
C25_AddStockOneLotOneMovement ==
    [][(/\ last'.op = "add_stock"
        /\ last'.ok
        /\ last'.arg[1] > 0) =>
          /\ last'.id \in ActiveProducts
          /\ movements' = Append(movements,
                [product_id |-> last'.id, movement_type |-> "purchase",
                 quantity |-> last'.arg[1]])
          /\ IF SameLot # {}
             THEN \E i \in SameLot :
                    stocks' = [stocks EXCEPT
                                  ![i].current_quantity = @ + last'.arg[1]]
             ELSE stocks' = Append(stocks,
                    [product_id |-> last'.id, current_quantity |-> last'.arg[1],
                     reserved_quantity |-> 0, expiration_date |-> last'.arg[2],
                     batch_number |-> last'.arg[3], location |-> last'.arg[4]])]_vars

\* A delivery of one unit was added to the lot of its batch, location and
\* expiration, which holds two units now.
C25_Witness ==
    /\ last.op = "add_stock"
    /\ last.ok
    /\ last.arg[1] = 1
    /\ last.arg[3] = "B1"
    /\ \E i \in StockIds :
          /\ stocks[i].batch_number = last.arg[3]
          /\ stocks[i].location = last.arg[4]
          /\ stocks[i].expiration_date = last.arg[2]
          /\ stocks[i].current_quantity = 2


\* The default durations of section 4.1.
DefaultDuration ==
    [consultation |-> 30, vaccination |-> 15, surgery |-> 120,
     emergency |-> 60, follow_up |-> 20, grooming |-> 60]

\* C26: schedule_appointment called without duration_minutes stores the
\* default duration of the appointment type (consultation 30, vaccination
\* 15, surgery 120, emergency 60, follow_up 20, grooming 60); a valid
\* duration that was supplied is stored as given.
C26_DefaultDurationByType ==
    (last.op = "schedule_appointment" /\ last.ok) =>
        LET data == last.arg[1] IN
        appts[last.id].duration_minutes =
            IF "duration_minutes" \in DOMAIN data
            THEN data.duration_minutes
            ELSE DefaultDuration[data.appointment_type]

\* A surgery and a vaccination were scheduled without a duration.
C26_Witness ==
    /\ last.op = "schedule_appointment"
    /\ last.ok
    /\ last.id = 2
    /\ "duration_minutes" \notin DOMAIN last.arg[1]
    /\ last.arg[1].appointment_type = "vaccination"
    /\ appts[1].duration_minutes = 120
    /\ appts[2].duration_minutes = 15


\* The sum of the quantities of the product's movements.
LedgerSum(product_id) ==
    SumOver([k \in 1..Len(movements) |-> movements[k].quantity],
            {k \in 1..Len(movements) : movements[k].product_id = product_id})

\* C27: starting from an empty inventory, after any sequence of add_stock
\* and remove_stock calls (any quantity, any movement type) the sum of a
\* product's movement quantities equals the sum of current_quantity over
\* its lots.
C27_LedgerMatchesStock ==
    \A p \in ActiveProducts : LedgerSum(p) = TotalOf(stocks, p)


\* C29: when two status operations on the same appointment run interleaved
\* (each reads the appointment, checks its status, then writes), the write
\* of one never replaces a stored status of completed or cancelled; cancel
\* and complete racing on an in_progress appointment is the case in point.
C29_RacingWriteKeepsTerminalStatus ==
    [][\A p \in Requests :
          (pending[p].pc = "loaded" /\ pending'[p].pc = "done") =>
              (appts[pending[p].id].status \in {"completed", "cancelled"} =>
                  appts'[pending[p].id].status = appts[pending[p].id].status)]_vars


ReservedOf(tbl, product_id) ==
    SumOver([i \in 1..Len(tbl) |-> tbl[i].reserved_quantity],
            {i \in 1..Len(tbl) : tbl[i].product_id = product_id})

SameQuantitiesOnHand ==
    /\ Len(stocks') = Len(stocks)
    /\ \A i \in StockIds : stocks'[i].current_quantity = stocks[i].current_quantity

\* C30: a successful reserve_stock(product, q) with q > 0 followed at once
\* by release_reservation(product, q) restores the product's total reserved
\* quantity to what it was before the reserve and leaves the
\* current_quantity of every lot unchanged: the reserve raises the total by
\* q and the release that follows it succeeds and lowers it by q.
C30_ReleaseUndoesReserve ==
    [][/\ (/\ last'.op = "reserve_stock"
            /\ last'.ok
            /\ last'.arg[1] > 0) =>
              /\ ReservedOf(stocks', last'.id)
                    = ReservedOf(stocks, last'.id) + last'.arg[1]
              /\ SameQuantitiesOnHand
       /\ (/\ last.op = "reserve_stock"
            /\ last.ok
            /\ last.arg[1] > 0
            /\ last'.op = "release_reservation"
            /\ last'.id = last.id
            /\ last'.arg = last.arg) =>
              /\ last'.ok
              /\ ReservedOf(stocks', last'.id)
                    = ReservedOf(stocks, last'.id) - last'.arg[1]
              /\ SameQuantitiesOnHand]_vars

\* One unit was released of a lot of two units, and one unit of that lot
\* stays reserved.
C30_Witness ==
    /\ last.op = "release_reservation"
    /\ last.ok
    /\ last.arg[1] = 1
    /\ \E i \in StockIds :
          /\ stocks[i].current_quantity = 2
          /\ stocks[i].reserved_quantity = 1

====
